---- MODULE Spec2Model ----
(***************************************************************************)
(* Geocoin game (src/src/main.ts): deterministic cache generation, the     *)
(* grid of cell mementos, coin transfers through cache popups, marker      *)
(* movement and persistence of the application state in localStorage.      *)
(*                                                                         *)
(* Units.  Latitudes and longitudes are integers counted in quarters of a  *)
(* grid cell (one unit = 2.5e-5 degrees), relative to the grid point that  *)
(* is nearest to MAP_CENTER.  A leaflet.LatLng is the record [lat, lng];   *)
(* LatLng.toString() is the pair <<lat, lng>>; a Geocoin `#i@latLng` is    *)
(* the triple <<i, lat, lng>>.  A JSON text is modelled by the tree it     *)
(* denotes.  luck(key) = draw / LuckResolution for an integer draw.        *)
(***************************************************************************)
EXTENDS Integers, Sequences, FiniteSets, TLC

\* ------------------------------------------------------------ constants

GRID_LATLNG_DIMENSIONS == 4

GEOCOIN_CACHE_PROBABILITY_PERCENT == 10

GEOCOIN_CACHE_MAX_VALUE == 100

GEOCOIN_CACHE_MIN_VALUE == 1

GEOCOIN_CACHE_VISIBILITY_RADIUS == 8

MAP_CENTER == [lat |-> 0, lng |-> 1]

\* --------------------------------------------------------------- bounds

\* luck draws are the multiples of 1/LuckResolution in [0,1)
LuckResolution == 200

\* longest coin array handed to moveCoin / moveAllCoins on their own
MoveLen == 3

\* the arrow buttons keep the marker within this many cells, north and east
\* together, of MAP_CENTER
MaxMoveCells == 1

\* the largest draw of the "how many coins" key in the application runs
MaxCountDraw == 2

\* popups built by a click and still waiting for their 10 ms timer
MaxPending == 2

\* getCurrentPosition requests not yet answered, and position watches running
MaxGeoRequests == 1

\* a transfer is followed only while no coin array grows beyond this length
MaxHeld == 2

\* --------------------------------------------------------------- state

VARIABLES
  luckTable,    \* luck.ts: the draw of every key, fixed for the whole run
  call,         \* a function applied on its own: its arguments and results
  pc,           \* "start": lines 759-760 done; "running": 761-762 done;
                \* "crashed": line 761 threw, line 762 never ran
  marker,       \* state.userMarker.getLatLng()
  grid,         \* state.grid: LatLng string -> cell memento
  coinsOwned,   \* state.coinsOwned
  tiles,        \* the canvases the grid layer shows: tile centre -> onclick
  pending,      \* popup contents built, waiting for their setTimeout
  popup,        \* the popup open on the map: <<>> or <<content>>
  geo,          \* uiIn.geolocationWatchID and the browser's geolocation work
  localStorage  \* the item "serializedAppState"

appVars == <<pc, marker, grid, coinsOwned, tiles, pending, popup, geo,
             localStorage>>

vars == <<luckTable, call, pc, marker, grid, coinsOwned, tiles, pending, popup,
          geo, localStorage>>

\* ------------------------------------------------------------ utilities

Undefined == <<>>

latLng(lat, lng) == [lat |-> lat, lng |-> lng]

LatLngToString(ll) == <<ll.lat, ll.lng>>

\* Math.round(n / d) for d > 0: halves round towards +infinity
RoundDiv(n, d) == (2 * n + d) \div (2 * d)

\* the index of the first element of ts equal to t, 0 when there is none
FirstIndex(ts, t) ==
  IF \E i \in 1..Len(ts) : ts[i] = t
    THEN CHOOSE i \in 1..Len(ts) : ts[i] = t /\ \A j \in 1..(i - 1) : ts[j] # t
    ELSE 0

\* as arrayRemove, the last matching element removed instead of the first
arrayRemoveLast(ts, t) ==
  LET i == IF \E k \in 1..Len(ts) : ts[k] = t
             THEN CHOOSE k \in 1..Len(ts) :
                    ts[k] = t /\ \A j \in (k + 1)..Len(ts) : ts[j] # t
             ELSE 0
  IN IF i = 0
       THEN [ts |-> ts, found |-> FALSE, t |-> Undefined]
       ELSE [ts |-> [j \in 1..(Len(ts) - 1) |-> IF j < i THEN ts[j] ELSE ts[j + 1]],
             found |-> TRUE,
             t |-> ts[i]]

arrayRemove(ts, t) ==
  LET i == FirstIndex(ts, t)
  IN IF i = 0
       THEN [ts |-> ts, found |-> FALSE, t |-> Undefined]
       ELSE [ts |-> [j \in 1..(Len(ts) - 1) |-> IF j < i THEN ts[j] ELSE ts[j + 1]],
             found |-> TRUE,
             t |-> ts[i]]

\* ----------------------------------------------------------- generation

lerp(min, max, weight) ==
  [num |-> min * weight.den + weight.num * (max - min), den |-> weight.den]

\* luck(key): the draw of the key over LuckResolution, a rational in [0,1)
luck(question, ll) ==
  [num |-> luckTable[<<question, LatLngToString(ll)>>], den |-> LuckResolution]

\* as tryGenerateGeocoinCache, the count interpolated from 0
tryGenerateGeocoinCacheFromZero(cell) ==
  LET p == luck("IsThereACache", cell.latLng)
      hasCache == 100 * p.num > (100 - GEOCOIN_CACHE_PROBABILITY_PERCENT) * p.den
      w == lerp(0, GEOCOIN_CACHE_MAX_VALUE, luck("HowManyCoins", cell.latLng))
      count == RoundDiv(w.num, w.den)
      coins == IF hasCache
                 THEN [i \in 1..count |-> <<i, cell.latLng.lat, cell.latLng.lng>>]
                 ELSE <<>>
  IN [latLng |-> cell.latLng, hasCache |-> hasCache, coins |-> coins]

tryGenerateGeocoinCache(cell) ==
  LET p == luck("IsThereACache", cell.latLng)
      hasCache == 100 * p.num > (100 - GEOCOIN_CACHE_PROBABILITY_PERCENT) * p.den
      w == lerp(GEOCOIN_CACHE_MIN_VALUE, GEOCOIN_CACHE_MAX_VALUE,
                luck("HowManyCoins", cell.latLng))
      count == RoundDiv(w.num, w.den)
      coins == IF hasCache
                 THEN [i \in 1..count |-> <<i, cell.latLng.lat, cell.latLng.lng>>]
                 ELSE <<>>
  IN [latLng |-> cell.latLng, hasCache |-> hasCache, coins |-> coins]

\* ------------------------------------------------------------ transfers

\* as moveCoin, an empty source reported as a success
moveCoinEmptySucceeds(from, to, coin) ==
  IF Len(from) <= 0
    THEN [from |-> from, to |-> to, ret |-> TRUE]
    ELSE LET c == IF coin = Undefined THEN from[1] ELSE coin
             r == arrayRemove(from, c)
         IN IF r.found
              THEN [from |-> r.ts, to |-> Append(to, r.t), ret |-> TRUE]
              ELSE [from |-> r.ts, to |-> to, ret |-> FALSE]

moveCoin(from, to, coin) ==
  IF Len(from) <= 0
    THEN [from |-> from, to |-> to, ret |-> FALSE]
    ELSE LET c == IF coin = Undefined THEN from[1] ELSE coin
             r == arrayRemove(from, c)
         IN IF r.found
              THEN [from |-> r.ts, to |-> Append(to, r.t), ret |-> TRUE]
              ELSE [from |-> r.ts, to |-> to, ret |-> FALSE]

RECURSIVE PushAll(_, _)
PushAll(to, from) ==
  IF from = <<>> THEN to ELSE PushAll(Append(to, Head(from)), Tail(from))

\* as moveAllCoins, the source not emptied
moveAllCoinsKeepsSource(from, to) ==
  [from |-> from, to |-> PushAll(to, from)]

moveAllCoins(from, to) ==
  [from |-> SubSeq(from, 1, 0), to |-> PushAll(to, from)]

\* -------------------------------------------------------------- geometry

boundsAround(center, radius) ==
  [north |-> center.lat + radius, east |-> center.lng + radius,
   south |-> center.lat - radius, west |-> center.lng - radius]

\* leaflet.LatLngBounds.contains of a point: the borders are inside
Contains(bounds, ll) ==
  /\ ll.lat <= bounds.north /\ ll.lat >= bounds.south
  /\ ll.lng <= bounds.east /\ ll.lng >= bounds.west

getNearestDiscreteLatLng(where, marginLat, marginLng) ==
  latLng(RoundDiv(where.lat, marginLat) * marginLat,
         RoundDiv(where.lng, marginLng) * marginLng)

gridCellInRange(state, cell) ==
  Contains(boundsAround(state.marker,
                        GRID_LATLNG_DIMENSIONS * GEOCOIN_CACHE_VISIBILITY_RADIUS),
           cell.latLng)

\* ----------------------------------------------------------------- cells

\* as geocoinGridCellToMemento, the presence flag derived from the coins
geocoinGridCellToMementoDerivedFlag(cell) ==
  [latLng |-> [lat |-> cell.latLng.lat, lng |-> cell.latLng.lng],
   hasCache |-> Len(cell.coins) > 0,
   coins |-> cell.coins]

geocoinGridCellToMemento(cell) ==
  [latLng |-> [lat |-> cell.latLng.lat, lng |-> cell.latLng.lng],
   hasCache |-> cell.hasCache,
   coins |-> cell.coins]

\* as populateGeocoinGridCellFromMemento, the presence flag derived from the coins
populateGeocoinGridCellDerivedFlag(cell, memento) ==
  [latLng |-> latLng(memento.latLng.lat, memento.latLng.lng),
   hasCache |-> Len(memento.coins) > 0,
   coins |-> memento.coins]

populateGeocoinGridCellFromMemento(cell, memento) ==
  [latLng |-> latLng(memento.latLng.lat, memento.latLng.lng),
   hasCache |-> memento.hasCache,
   coins |-> memento.coins]

\* t: a parsed JSON object, [has |-> the names of its properties, value |->
\* their values]; the result tells whether the cast threw, and on which key
asHavingProperties(t, keys) ==
  LET missing == {i \in 1..Len(keys) : keys[i] \notin t.has}
  IN IF missing = {}
       THEN [thrown |-> FALSE, key |-> ""]
       ELSE [thrown |-> TRUE,
             key |-> keys[CHOOSE i \in missing : \A j \in missing : i <= j]]

\* as fromMemento, the properties the memento has assigned before the cast
fromMementoAssignsFirst(cell, memento) ==
  LET cast == asHavingProperties(memento, <<"latLng", "hasCache", "coins">>)
      assigned ==
        [latLng |-> IF "latLng" \in memento.has
                      THEN latLng(memento.value.latLng.lat, memento.value.latLng.lng)
                      ELSE cell.latLng,
         hasCache |-> IF "hasCache" \in memento.has
                        THEN memento.value.hasCache ELSE cell.hasCache,
         coins |-> IF "coins" \in memento.has THEN memento.value.coins ELSE cell.coins]
  IN [cell |-> assigned, thrown |-> cast.thrown, key |-> cast.key]

\* cell.fromMemento(memento), which is populateGeocoinGridCellFromMemento(cell,
\* memento), over a memento that may lack properties: the cell after the
\* call, whether the call threw, and the key asHavingProperties threw on
fromMemento(cell, memento) ==
  LET cast == asHavingProperties(memento, <<"latLng", "hasCache", "coins">>)
  IN IF cast.thrown
       THEN [cell |-> cell, thrown |-> TRUE, key |-> cast.key]
       ELSE [cell |-> populateGeocoinGridCellFromMemento(cell, memento.value),
             thrown |-> FALSE, key |-> ""]

\* memento: <<>> when the argument is left out, <<m>> when it is given
makeGridCell(ll, memento) ==
  LET result == [latLng |-> ll]
  IN IF memento = <<>>
       THEN tryGenerateGeocoinCache(result)
       ELSE populateGeocoinGridCellFromMemento(result, memento[1])

\* the canvas.onclick that updateGridCellPresentation installs
updateGridCellPresentation(state, cell) ==
  IF cell.hasCache /\ gridCellInRange(state, cell)
    THEN "showGeocoinCachePopup"
    ELSE "noop"

Put(f, k, v) == [x \in DOMAIN f \cup {k} |-> IF x = k THEN v ELSE f[x]]

\* for (key of Object.keys(g)) f[key] = g[key]
PutAll(f, g) == [x \in DOMAIN f \cup DOMAIN g |-> IF x \in DOMAIN g THEN g[x] ELSE f[x]]

NoGrid == [k \in {} |-> 0]

\* as getGridCell, the cell generated anew and stored at every request
getGridCellRegenerates(state, coords) ==
  LET ll == getNearestDiscreteLatLng(coords, GRID_LATLNG_DIMENSIONS,
                                     GRID_LATLNG_DIMENSIONS)
      key == LatLngToString(ll)
      value == makeGridCell(ll, <<>>)
      after == [state EXCEPT
                  !.grid = Put(state.grid, key, geocoinGridCellToMemento(value))]
  IN [state |-> after, cell |-> value,
      onclick |-> updateGridCellPresentation(after, value)]

\* state: [marker, grid, coinsOwned, tiles, localStorage]; the result is the
\* state after the call, the cell returned and its canvas.onclick
getGridCell(state, coords) ==
  LET ll == getNearestDiscreteLatLng(coords, GRID_LATLNG_DIMENSIONS,
                                     GRID_LATLNG_DIMENSIONS)
      key == LatLngToString(ll)
      known == key \in DOMAIN state.grid
      value == IF known THEN makeGridCell(ll, <<state.grid[key]>>)
                        ELSE makeGridCell(ll, <<>>)
      after == IF known THEN state
               ELSE [state EXCEPT
                       !.grid = Put(state.grid, key, geocoinGridCellToMemento(value))]
  IN [state |-> after, cell |-> value,
      onclick |-> updateGridCellPresentation(after, value)]

\* the JSON text of the application state: the properties it has, their values
serializeAppState(state) ==
  [text |-> "json",
   has |-> {"userMarkerLatLng", "grid", "coinsOwned"},
   value |-> [userMarkerLatLng |-> [lat |-> state.marker.lat, lng |-> state.marker.lng],
              grid |-> state.grid,
              coinsOwned |-> state.coinsOwned]]

saveStateToLocalStorage(state) ==
  [state EXCEPT !.localStorage = serializeAppState(state)]

\* as saveGridCell, the grid left holding this cell alone
saveGridCellAlone(state, cell) ==
  saveStateToLocalStorage(
    [state EXCEPT !.grid = Put(NoGrid, LatLngToString(cell.latLng),
                               geocoinGridCellToMemento(cell))])

saveGridCell(state, cell) ==
  saveStateToLocalStorage(
    [state EXCEPT !.grid = Put(state.grid, LatLngToString(cell.latLng),
                               geocoinGridCellToMemento(cell))])

\* createTile of makeGeocoinGrid for the tile centred at coords
createTile(state, coords) ==
  LET got == getGridCell(state, coords)
  IN [got.state EXCEPT !.tiles = Put(got.state.tiles, LatLngToString(coords),
                                     got.onclick)]

RECURSIVE createTiles(_, _)
createTiles(state, centres) ==
  IF centres = {} THEN state
  ELSE LET c == CHOOSE x \in centres : TRUE
       IN createTiles(createTile(state, c), centres \ {c})

NoTiles == [k \in {} |-> "noop"]

\* gridLayer.redraw(): every tile is dropped, the tiles in view are created
redraw(state, inView) ==
  createTiles([state EXCEPT !.tiles = NoTiles], inView)

\* inView: the tile centres the grid layer finds in view if it redraws
moveUserMarkerToLatLng(state, ll, inView) ==
  LET from == getGridCell(state, state.marker)
      moved == [from.state EXCEPT !.marker = ll]
      to == getGridCell(moved, ll)
  IN IF LatLngToString(to.cell.latLng) # LatLngToString(from.cell.latLng)
       THEN redraw(to.state, inView)
       ELSE to.state

\* ------------------------------------------------------------ persistence

NoDocument ==
  [userMarkerLatLng |-> [lat |-> 0, lng |-> 0], grid |-> NoGrid, coinsOwned |-> <<>>]

\* localStorage.getItem("serializedAppState") === null
NoItem == [text |-> "absent", has |-> {}, value |-> NoDocument]

\* as deserializeAppState, the keys of the previous grid not deleted
deserializeAppStateKeepsKeys(state, memento, inView) ==
  IF memento.text = "unparseable"
    THEN [state |-> state, thrown |-> TRUE]
  ELSE
    LET mementoObject == memento.value
        deleted == state
        copied == [deleted EXCEPT !.grid = PutAll(deleted.grid, mementoObject.grid)]
        emptied == [copied EXCEPT !.coinsOwned = <<>>]
        pushed == [emptied EXCEPT !.coinsOwned = PushAll(<<>>, mementoObject.coinsOwned)]
    IN IF "grid" \notin memento.has
         THEN [state |-> deleted, thrown |-> TRUE]
       ELSE IF "coinsOwned" \notin memento.has
         THEN [state |-> emptied, thrown |-> TRUE]
       ELSE IF "userMarkerLatLng" \notin memento.has
         THEN [state |-> pushed, thrown |-> TRUE]
       ELSE [state |-> moveUserMarkerToLatLng(
                         pushed,
                         latLng(mementoObject.userMarkerLatLng.lat,
                                mementoObject.userMarkerLatLng.lng),
                         inView),
             thrown |-> FALSE]

\* the result: the state reached, and whether an exception left the function
deserializeAppState(state, memento, inView) ==
  IF memento.text = "unparseable"
    THEN [state |-> state, thrown |-> TRUE]
  ELSE
    LET mementoObject == memento.value
        deleted == [state EXCEPT !.grid = NoGrid]
        copied == [deleted EXCEPT !.grid = PutAll(deleted.grid, mementoObject.grid)]
        emptied == [copied EXCEPT !.coinsOwned = <<>>]
        pushed == [emptied EXCEPT !.coinsOwned = PushAll(<<>>, mementoObject.coinsOwned)]
    IN IF "grid" \notin memento.has
         THEN [state |-> deleted, thrown |-> TRUE]
       ELSE IF "coinsOwned" \notin memento.has
         THEN [state |-> emptied, thrown |-> TRUE]
       ELSE IF "userMarkerLatLng" \notin memento.has
         THEN [state |-> pushed, thrown |-> TRUE]
       ELSE [state |-> moveUserMarkerToLatLng(
                         pushed,
                         latLng(mementoObject.userMarkerLatLng.lat,
                                mementoObject.userMarkerLatLng.lng),
                         inView),
             thrown |-> FALSE]

loadStateFromLocalStorage(state, inView) ==
  IF state.localStorage.text # "absent"
    THEN deserializeAppState(state, state.localStorage, inView)
    ELSE [state |-> state, thrown |-> FALSE]

\* ------------------------------------------------------------------ popups

\* the enabled buttons of a popup as updatePopup leaves them
updatePopup(content, state) ==
  [cell |-> content.cell,
   takeDisabled |-> Len(content.cell.coins) <= 0,
   leaveDisabled |-> Len(state.coinsOwned) <= 0]

\* ------------------------------------------------------------- application

\* the centres of the tiles the grid layer asks for
TileCentres == {latLng(31, -1)}

\* the positions the geolocation device reports
GeoPositions == {latLng(-1, 1)}

TileCells ==
  {getNearestDiscreteLatLng(c, GRID_LATLNG_DIMENSIONS, GRID_LATLNG_DIMENSIONS) :
     c \in TileCentres}

\* every cell a run can ask for
WorldCells ==
  TileCells
  \cup {getNearestDiscreteLatLng(c, GRID_LATLNG_DIMENSIONS, GRID_LATLNG_DIMENSIONS) :
          c \in GeoPositions}
  \cup {latLng(GRID_LATLNG_DIMENSIONS * i, GRID_LATLNG_DIMENSIONS * j) :
          i \in -1..(MaxMoveCells + 1), j \in -1..(MaxMoveCells + 1)}

WorldKeys == {"IsThereACache", "HowManyCoins"} \X {LatLngToString(c) : c \in WorldCells}

\* the draws of an application run: only the tile cells may hold a cache,
\* and a cache holds the fewest or the MaxCountDraw-th fewest coins
TileKeys == {"IsThereACache", "HowManyCoins"} \X {LatLngToString(c) : c \in TileCells}

AppLuckTables ==
  {[k \in WorldKeys |-> IF k \in TileKeys THEN t[k] ELSE 0] :
     t \in {u \in [TileKeys -> {0, MaxCountDraw, LuckResolution - 1}] :
              \A c \in TileCells :
                LET has == u[<<"IsThereACache", LatLngToString(c)>>]
                    many == u[<<"HowManyCoins", LatLngToString(c)>>]
                IN /\ has \in {0, LuckResolution - 1}
                   /\ many \in {0, MaxCountDraw}
                   /\ (has = 0 => many = 0)}}

State ==
  [marker |-> marker, grid |-> grid, coinsOwned |-> coinsOwned, tiles |-> tiles,
   localStorage |-> localStorage]

Becomes(state) ==
  /\ marker' = state.marker
  /\ grid' = state.grid
  /\ coinsOwned' = state.coinsOwned
  /\ tiles' = state.tiles
  /\ localStorage' = state.localStorage

NoCall == [op |-> "none"]

NoGeo == [requests |-> 0, watchID |-> FALSE, watches |-> 0]

\* the state after makeAppUIOut() and makeAppState(): lines 759-760
Fresh ==
  /\ pc = "start"
  /\ marker = MAP_CENTER
  /\ grid = NoGrid
  /\ coinsOwned = <<>>
  /\ tiles = NoTiles
  /\ pending = <<>>
  /\ popup = <<>>
  /\ geo = NoGeo

Init ==
  /\ luckTable \in AppLuckTables
  /\ call = NoCall
  /\ Fresh
  /\ localStorage = NoItem

\* the grid layer calls createTile: during makeAppState, or later from the
\* event loop
CreateTile ==
  \E coords \in TileCentres :
    /\ Becomes(createTile(State, coords))
    /\ UNCHANGED <<luckTable, call, pc, pending, popup, geo>>

\* lines 761-762: loadStateFromLocalStorage, then makeAppUIIn unless it threw
Startup ==
  /\ pc = "start"
  /\ \E inView \in SUBSET TileCentres :
       LET r == loadStateFromLocalStorage(State, inView)
       IN /\ Becomes(r.state)
          /\ pc' = IF r.thrown THEN "crashed" ELSE "running"
  /\ UNCHANGED <<luckTable, call, pending, popup, geo>>

InBox(ll) ==
  /\ ll.lat - MAP_CENTER.lat >= 0
  /\ ll.lng - MAP_CENTER.lng >= 0
  /\ (ll.lat - MAP_CENTER.lat) + (ll.lng - MAP_CENTER.lng)
       <= MaxMoveCells * GRID_LATLNG_DIMENSIONS

moveUserMarkerByCells(latCells, lngCells) ==
  LET to == latLng(marker.lat + latCells * GRID_LATLNG_DIMENSIONS,
                   marker.lng + lngCells * GRID_LATLNG_DIMENSIONS)
  IN /\ pc = "running"
     /\ InBox(to)
     /\ \E inView \in SUBSET TileCentres :
          Becomes(saveStateToLocalStorage(moveUserMarkerToLatLng(State, to, inView)))
     /\ UNCHANGED <<luckTable, call, pc, pending, popup, geo>>

NorthButton == moveUserMarkerByCells(1, 0)

SouthButton == moveUserMarkerByCells(-1, 0)

EastButton == moveUserMarkerByCells(0, 1)

WestButton == moveUserMarkerByCells(0, -1)

\* a click on the canvas of the tile centred at t: showGeocoinCachePopup up
\* to the setTimeout; the same mouse event then closes the popup that is open
ClickTile ==
  \E t \in DOMAIN tiles :
    /\ pc # "start"
    /\ tiles[t] = "showGeocoinCachePopup"
    /\ Len(pending) < MaxPending
    /\ LET got == getGridCell(State, latLng(t[1], t[2]))
       IN /\ Becomes(got.state)
          /\ pending' = IF ~got.cell.hasCache
                          THEN pending
                          ELSE Append(pending, updatePopup([cell |-> got.cell], got.state))
    /\ popup' = <<>>
    /\ UNCHANGED <<luckTable, call, pc, geo>>

\* the setTimeout callback: state.map.openPopup closes the popup that was open
OpenPopup ==
  /\ pc # "start"
  /\ pending # <<>>
  /\ popup' = <<Head(pending)>>
  /\ pending' = Tail(pending)
  /\ UNCHANGED <<luckTable, call, pc, marker, grid, coinsOwned, tiles, geo,
                 localStorage>>

\* what a button of the open popup does once its transfer is made: the cell
\* of the popup holds cellCoins, the player owns owned
AfterTransfer(cellCoins, owned) ==
  LET cell == [popup[1].cell EXCEPT !.coins = cellCoins]
      state == [State EXCEPT !.coinsOwned = owned]
  IN /\ Len(cellCoins) <= MaxHeld
     /\ Len(owned) <= MaxHeld
     /\ popup' = <<updatePopup([cell |-> cell], state)>>
     /\ Becomes(saveGridCell(state, cell))

TakeButton ==
  /\ pc # "start"
  /\ popup # <<>>
  /\ ~popup[1].takeDisabled
  /\ LET r == moveCoin(popup[1].cell.coins, coinsOwned, Undefined)
     IN IF r.ret
          THEN AfterTransfer(r.from, r.to)
          ELSE UNCHANGED <<popup, marker, grid, coinsOwned, tiles, localStorage>>
  /\ UNCHANGED <<luckTable, call, pc, pending, geo>>

LeaveButton ==
  /\ pc # "start"
  /\ popup # <<>>
  /\ ~popup[1].leaveDisabled
  /\ LET r == moveCoin(coinsOwned, popup[1].cell.coins, Undefined)
     IN IF r.ret
          THEN AfterTransfer(r.to, r.from)
          ELSE UNCHANGED <<popup, marker, grid, coinsOwned, tiles, localStorage>>
  /\ UNCHANGED <<luckTable, call, pc, pending, geo>>

TakeAllButton ==
  /\ pc # "start"
  /\ popup # <<>>
  /\ ~popup[1].takeDisabled
  /\ LET r == moveAllCoins(popup[1].cell.coins, coinsOwned)
     IN AfterTransfer(r.from, r.to)
  /\ UNCHANGED <<luckTable, call, pc, pending, geo>>

LeaveAllButton ==
  /\ pc # "start"
  /\ popup # <<>>
  /\ ~popup[1].leaveDisabled
  /\ LET r == moveAllCoins(coinsOwned, popup[1].cell.coins)
     IN AfterTransfer(r.to, r.from)
  /\ UNCHANGED <<luckTable, call, pc, pending, geo>>

\* geolocationButton.onclick
toggleGeolocation ==
  /\ pc = "running"
  /\ IF ~geo.watchID
       THEN /\ geo.requests + geo.watches < MaxGeoRequests
            /\ geo' = [geo EXCEPT !.requests = geo.requests + 1]
       ELSE geo' = [geo EXCEPT !.watchID = FALSE, !.watches = geo.watches - 1]
  /\ UNCHANGED <<luckTable, call, pc, marker, grid, coinsOwned, tiles, pending,
                 popup, localStorage>>

\* the getCurrentPosition callback of eachGeolocationPosition
GeolocationFirstPosition ==
  /\ geo.requests > 0
  /\ \E posn \in GeoPositions, inView \in SUBSET TileCentres :
       Becomes(moveUserMarkerToLatLng(State, posn, inView))
  /\ geo' = [requests |-> geo.requests - 1, watchID |-> TRUE,
             watches |-> geo.watches + 1]
  /\ UNCHANGED <<luckTable, call, pc, pending, popup>>

\* the watchPosition callback
GeolocationUpdate ==
  /\ geo.watches > 0
  /\ \E posn \in GeoPositions, inView \in SUBSET TileCentres :
       Becomes(moveUserMarkerToLatLng(State, posn, inView))
  /\ UNCHANGED <<luckTable, call, pc, pending, popup, geo>>

\* the page is closed and opened again: everything but localStorage is built
\* anew by lines 759-760
Restart ==
  /\ pc # "start"
  /\ pc' = "start"
  /\ marker' = MAP_CENTER
  /\ grid' = NoGrid
  /\ coinsOwned' = <<>>
  /\ tiles' = NoTiles
  /\ pending' = <<>>
  /\ popup' = <<>>
  /\ geo' = NoGeo
  /\ UNCHANGED <<luckTable, call, localStorage>>

Next ==
  \/ CreateTile
  \/ Startup
  \/ NorthButton
  \/ SouthButton
  \/ EastButton
  \/ WestButton
  \/ ClickTile
  \/ OpenPopup
  \/ TakeButton
  \/ LeaveButton
  \/ TakeAllButton
  \/ LeaveAllButton
  \/ toggleGeolocation
  \/ GeolocationFirstPosition
  \/ GeolocationUpdate
  \/ Restart

Spec == Init /\ [][Next]_vars

\* ------------------------------------- start-up over an item found in place

SampleDocument ==
  [userMarkerLatLng |-> [lat |-> 4, lng |-> 1],
   grid |-> [k \in {<<32, 0>>} |->
               [latLng |-> [lat |-> 32, lng |-> 0], hasCache |-> TRUE,
                coins |-> <<<<2, 32, 0>>>>]],
   coinsOwned |-> <<<<1, 32, 0>>>>]

\* what the browser may hold under "serializedAppState" when the page opens:
\* nothing, a text that is no JSON, or a JSON object with some of the
\* properties of an application state
FoundItems ==
  {NoItem, [text |-> "unparseable", has |-> {}, value |-> NoDocument]}
  \cup {[text |-> "json", has |-> h, value |-> SampleDocument] :
          h \in SUBSET {"userMarkerLatLng", "grid", "coinsOwned"}}

InitExt ==
  /\ luckTable \in AppLuckTables
  /\ call = NoCall
  /\ Fresh
  /\ localStorage \in FoundItems

SpecExt == InitExt /\ [][Next]_vars

\* ----------------------------------------- transfers applied on their own

MoveTokens == {<<1, 0, 4>>, <<2, 0, 4>>, <<1, 32, 0>>}

MoveArrays == UNION {[1..n -> MoveTokens] : n \in 0..MoveLen}

NoLuck == [k \in {} |-> 0]

\* the application stays as constructed while a function is applied alone
Idle == Fresh /\ localStorage = NoItem

InitMove ==
  /\ Idle
  /\ luckTable = NoLuck
  /\ \E from \in MoveArrays, to \in MoveArrays, coin \in MoveTokens \cup {Undefined} :
       call = [op |-> "none", from0 |-> from, to0 |-> to, coin |-> coin,
               from |-> from, to |-> to, ret |-> FALSE]

CallMoveCoin ==
  /\ call.op = "none"
  /\ LET r == moveCoin(call.from0, call.to0, call.coin)
     IN call' = [call EXCEPT !.op = "moveCoin", !.from = r.from, !.to = r.to,
                             !.ret = r.ret]
  /\ UNCHANGED luckTable
  /\ UNCHANGED appVars

CallMoveAllCoins ==
  /\ call.op = "none"
  /\ LET r == moveAllCoins(call.from0, call.to0)
     IN call' = [call EXCEPT !.op = "moveAllCoins", !.from = r.from, !.to = r.to]
  /\ UNCHANGED luckTable
  /\ UNCHANGED appVars

NextMove == CallMoveCoin \/ CallMoveAllCoins

SpecMove == InitMove /\ [][NextMove]_vars

\* ----------------------------------------- generation applied on its own

GenCells == {latLng(0, 4), latLng(32, 0)}

LuckDraws == 0..(LuckResolution - 1)

LuckKeys(ll) == {"IsThereACache", "HowManyCoins"} \X {LatLngToString(ll)}

InitGen ==
  \E ll \in GenCells :
    /\ Idle
    /\ luckTable \in [LuckKeys(ll) -> LuckDraws]
    /\ call = [op |-> "none", latLng |-> ll, hasCache |-> FALSE, coins |-> <<>>]

CallTryGenerateGeocoinCache ==
  /\ call.op = "none"
  /\ LET cell == tryGenerateGeocoinCache([latLng |-> call.latLng])
     IN call' = [op |-> "tryGenerateGeocoinCache", latLng |-> cell.latLng,
                 hasCache |-> cell.hasCache, coins |-> cell.coins]
  /\ UNCHANGED luckTable
  /\ UNCHANGED appVars

NextGen == CallTryGenerateGeocoinCache

SpecGen == InitGen /\ [][NextGen]_vars

\* --------------------------------------- fromMemento applied on its own

MementoProperties == {"latLng", "hasCache", "coins"}

MementoCoins == {<<>>, <<<<1, 32, 0>>>>, <<<<2, 0, 4>>, <<1, 0, 4>>>>}

\* cells as generation and transfers leave them
MementoCells ==
  {[latLng |-> ll, hasCache |-> hasCache, coins |-> coins] :
     ll \in GenCells, hasCache \in BOOLEAN, coins \in MementoCoins}

\* JSON objects with some of the properties of a cell memento
CellMementos ==
  {[has |-> has, value |-> geocoinGridCellToMemento(cell)] :
     has \in SUBSET MementoProperties, cell \in MementoCells}

InitMemento ==
  /\ Idle
  /\ luckTable = NoLuck
  /\ \E cell \in MementoCells, memento \in CellMementos :
       call = [op |-> "none", cell0 |-> cell, memento |-> memento, cell |-> cell,
               thrown |-> FALSE, key |-> ""]

CallFromMemento ==
  /\ call.op = "none"
  /\ LET r == fromMemento(call.cell0, call.memento)
     IN call' = [call EXCEPT !.op = "fromMemento", !.cell = r.cell,
                             !.thrown = r.thrown, !.key = r.key]
  /\ UNCHANGED luckTable
  /\ UNCHANGED appVars

NextMemento == CallFromMemento

SpecMemento == InitMemento /\ [][NextMemento]_vars

\* ------------------- the revision that counts coins (src/unnamed/part_000)
\*
\* state.grid maps Point strings to the cell objects themselves, a cell is
\* [hasCache, coins] with coins a number, state.coinsOwned is a number, and a
\* popup holds the key of its cell, the object being shared with the grid.

\* the tile coordinates the grid layer asks for
Points_000 == {[x |-> 0, y |-> 0], [x |-> 1, y |-> 0]}

PointToString(coords) == <<coords.x, coords.y>>

PointKeys_000 ==
  {"IsThereACache", "HowManyCoins"} \X {PointToString(c) : c \in Points_000}

\* the draws of a run: a cache holds the fewest or the MaxCountDraw-th fewest
\* coins
LuckTables_000 ==
  {t \in [PointKeys_000 -> {0, MaxCountDraw, LuckResolution - 1}] :
     \A c \in Points_000 :
       LET has == t[<<"IsThereACache", PointToString(c)>>]
           many == t[<<"HowManyCoins", PointToString(c)>>]
       IN /\ has \in {0, LuckResolution - 1}
          /\ many \in {0, MaxCountDraw}
          /\ (has = 0 => many = 0)}

luck_000(question, coords) ==
  [num |-> luckTable[<<question, PointToString(coords)>>], den |-> LuckResolution]

makeGridCell_000(coords) ==
  LET p == luck_000("IsThereACache", coords)
      hasCache == 100 * p.num > (100 - GEOCOIN_CACHE_PROBABILITY_PERCENT) * p.den
      w == lerp(GEOCOIN_CACHE_MIN_VALUE, GEOCOIN_CACHE_MAX_VALUE,
                luck_000("HowManyCoins", coords))
      coins == IF hasCache THEN RoundDiv(w.num, w.den) ELSE 0
  IN [hasCache |-> hasCache, coins |-> coins]

\* state: [grid, coinsOwned]
createTile_000(state, coords) ==
  LET key == PointToString(coords)
  IN IF key \in DOMAIN state.grid
       THEN state
       ELSE [state EXCEPT !.grid = Put(state.grid, key, makeGridCell_000(coords))]

\* the buttons of the popup of the cell at key as updatePopup leaves them
updatePopup_000(state, key) ==
  [key |-> key,
   takeDisabled |-> state.grid[key].coins <= 0,
   leaveDisabled |-> state.coinsOwned <= 0]

take_000(state, key) ==
  IF state.grid[key].coins > 0
    THEN [state EXCEPT !.grid[key].coins = @ - 1, !.coinsOwned = @ + 1]
    ELSE state

leave_000(state, key) ==
  IF state.coinsOwned > 0
    THEN [state EXCEPT !.grid[key].coins = @ + 1, !.coinsOwned = @ - 1]
    ELSE state

\* as takeAll_000, the count of the cell not set to 0
takeAllKeepsCount_000(state, key) ==
  [state EXCEPT !.coinsOwned = @ + state.grid[key].coins]

takeAll_000(state, key) ==
  [state EXCEPT !.coinsOwned = @ + state.grid[key].coins, !.grid[key].coins = 0]

leaveAll_000(state, key) ==
  [state EXCEPT !.grid[key].coins = @ + state.coinsOwned, !.coinsOwned = 0]

State_000 == [grid |-> grid, coinsOwned |-> coinsOwned]

\* what this revision does not have, or never changes
Rest_000 == <<luckTable, call, pc, marker, tiles, geo, localStorage>>

Init_000 ==
  /\ luckTable \in LuckTables_000
  /\ call = NoCall
  /\ pc = "running"
  /\ marker = MAP_CENTER
  /\ tiles = NoTiles
  /\ geo = NoGeo
  /\ localStorage = NoItem
  /\ grid = NoGrid
  /\ coinsOwned = 0
  /\ pending = <<>>
  /\ popup = <<>>

CreateTile_000 ==
  \E coords \in Points_000 :
    /\ grid' = createTile_000(State_000, coords).grid
    /\ UNCHANGED <<coinsOwned, pending, popup>>
    /\ UNCHANGED Rest_000

\* a click on the canvas of a cell that has a cache: showGeocoinCachePopup up
\* to the setTimeout; the click may close the popup that is open
ClickCache_000 ==
  \E key \in DOMAIN grid :
    /\ grid[key].hasCache
    /\ Len(pending) < MaxPending
    /\ pending' = Append(pending, updatePopup_000(State_000, key))
    /\ popup' \in {popup, <<>>}
    /\ UNCHANGED <<grid, coinsOwned>>
    /\ UNCHANGED Rest_000

\* the setTimeout callback
OpenPopup_000 ==
  /\ pending # <<>>
  /\ popup' = <<Head(pending)>>
  /\ pending' = Tail(pending)
  /\ UNCHANGED <<grid, coinsOwned>>
  /\ UNCHANGED Rest_000

\* a button of the open popup has taken the state to state; updatePopup runs
\* if the handler reached it
After_000(state, updated) ==
  /\ grid' = state.grid
  /\ coinsOwned' = state.coinsOwned
  /\ popup' = IF updated THEN <<updatePopup_000(state, popup[1].key)>> ELSE popup
  /\ UNCHANGED pending
  /\ UNCHANGED Rest_000

TakeButton_000 ==
  /\ popup # <<>>
  /\ ~popup[1].takeDisabled
  /\ After_000(take_000(State_000, popup[1].key), grid[popup[1].key].coins > 0)

LeaveButton_000 ==
  /\ popup # <<>>
  /\ ~popup[1].leaveDisabled
  /\ After_000(leave_000(State_000, popup[1].key), coinsOwned > 0)

TakeAllButton_000 ==
  /\ popup # <<>>
  /\ ~popup[1].takeDisabled
  /\ After_000(takeAll_000(State_000, popup[1].key), TRUE)

LeaveAllButton_000 ==
  /\ popup # <<>>
  /\ ~popup[1].leaveDisabled
  /\ After_000(leaveAll_000(State_000, popup[1].key), TRUE)

Next_000 ==
  \/ CreateTile_000
  \/ ClickCache_000
  \/ OpenPopup_000
  \/ TakeButton_000
  \/ LeaveButton_000
  \/ TakeAllButton_000
  \/ LeaveAllButton_000

Spec_000 == Init_000 /\ [][Next_000]_vars

\* ---------------------------------------------------------------- claims

\* C1: moveCoin called with an empty source returns false and leaves the
\* source and the destination unchanged, whatever the destination holds.
C1_EmptySourceFails ==
  (call.op = "moveCoin" /\ call.from0 = <<>>) =>
    (call.ret = FALSE /\ call.from = call.from0 /\ call.to = call.to0)

C1_Witness ==
  call.op = "moveCoin" /\ call.from0 = <<>> /\ Len(call.to0) = MoveLen

\* C2: moveAllCoins leaves the source empty and the destination equal to its
\* previous content followed by the previous source content in the same order.
C2_MoveAllAppends ==
  call.op = "moveAllCoins" =>
    (call.from = <<>> /\ call.to = call.to0 \o call.from0)

C2_Witness ==
  /\ call.op = "moveAllCoins"
  /\ Len(call.from0) = MoveLen /\ call.from0[1] # call.from0[2]
  /\ Len(call.to0) > 0

\* ----------------------------------------------- claims on the application

\* the cell objects a state holds: the cells of the popups, and the cell
\* getGridCell builds from every memento of the grid
CellOf(key) == makeGridCell(latLng(key[1], key[2]), <<grid[key]>>)

PopupCells == {popup[i].cell : i \in 1..Len(popup)} \cup {pending[i].cell : i \in 1..Len(pending)}

ReachableCells == PopupCells \cup {CellOf(key) : key \in DOMAIN grid}

Generated(key) == tryGenerateGeocoinCache([latLng |-> latLng(key[1], key[2])])

\* C4 (as claimed): the presence flag of every cell and the emptiness of its
\* coin array are those of its generation.
C4_PresenceAndEmptinessFixed ==
  \A key \in DOMAIN grid :
    /\ CellOf(key).hasCache = Generated(key).hasCache
    /\ (CellOf(key).coins = <<>>) = (Generated(key).coins = <<>>)

\* C4 (amended): the presence flag of every cell is that of its generation,
\* and a cell without a cache never holds a coin; the coin array of a cell
\* with a cache may become empty.
C4_PresenceFixed ==
  \A key \in DOMAIN grid :
    /\ CellOf(key).hasCache = Generated(key).hasCache
    /\ (~CellOf(key).hasCache => CellOf(key).coins = <<>>)
    /\ grid[key].hasCache = Generated(key).hasCache

C4_Witness ==
  /\ coinsOwned # <<>>
  /\ \E key \in DOMAIN grid : grid[key].hasCache /\ grid[key].coins = <<>>
  /\ \E key \in DOMAIN grid : ~grid[key].hasCache

LoadStep == pc = "start" /\ pc' # "start" /\ localStorage.text # "absent"

RestartStep == pc # "start" /\ pc' = "start"

Malformed(item) ==
  \/ item.text = "unparseable"
  \/ item.text = "json" /\ item.has # {"userMarkerLatLng", "grid", "coinsOwned"}

\* C5: start-up over a missing or malformed item completes with the handlers
\* installed and the grid, the coins owned and the marker of a fresh start.
C5_MalformedIsFreshStart ==
  [][(pc = "start" /\ pc' # "start"
        /\ (localStorage.text = "absent" \/ Malformed(localStorage)))
       => (pc' = "running" /\ grid' = grid /\ coinsOwned' = coinsOwned
             /\ marker' = marker)]_vars

\* what a new session holds once it has loaded the item now in localStorage
Reloaded ==
  loadStateFromLocalStorage(
    [marker |-> MAP_CENTER, grid |-> NoGrid, coinsOwned |-> <<>>,
     tiles |-> NoTiles, localStorage |-> localStorage], {}).state

\* the coins getGridCell finds at key in a grid
CoinsAt(g, key) == IF key \in DOMAIN g THEN g[key].coins ELSE Generated(key).coins

\* C6: whenever a session ends, the next session restores its marker
\* position, its coins owned and the coins of every cell it visited.
C6_SessionRestored ==
  pc = "running" =>
    /\ Reloaded.marker = marker
    /\ Reloaded.coinsOwned = coinsOwned
    /\ \A key \in DOMAIN grid : CoinsAt(Reloaded.grid, key) = grid[key].coins

RecordMarker ==
  latLng(localStorage.value.userMarkerLatLng.lat,
         localStorage.value.userMarkerLatLng.lng)

\* C7 (as claimed): after deserializeAppState the grid is the grid of the
\* record, the coins owned are the record's and the marker is at the
\* record's position.
C7_GridIsRecordGrid ==
  [][LoadStep => (/\ grid' = localStorage.value.grid
                  /\ coinsOwned' = localStorage.value.coinsOwned
                  /\ marker' = RecordMarker)]_vars

CellKey(ll) ==
  LatLngToString(getNearestDiscreteLatLng(ll, GRID_LATLNG_DIMENSIONS,
                                          GRID_LATLNG_DIMENSIONS))

\* C7 (amended): after deserializeAppState the coins owned are the record's,
\* the marker is at the record's position, every entry of the record's grid is
\* in the grid, and the only other entries are freshly generated ones for the
\* cell the marker left, the cell it arrived at and, if these differ, the
\* tiles redrawn.
C7_GridIsRecordGridAndMarkerCells ==
  [][LoadStep =>
       (/\ coinsOwned' = localStorage.value.coinsOwned
        /\ marker' = RecordMarker
        /\ \A key \in DOMAIN localStorage.value.grid :
             key \in DOMAIN grid' /\ grid'[key] = localStorage.value.grid[key]
        /\ \A key \in DOMAIN grid' \ DOMAIN localStorage.value.grid :
             /\ grid'[key] = geocoinGridCellToMemento(Generated(key))
             /\ \/ key \in {CellKey(marker), CellKey(RecordMarker)}
                \/ /\ CellKey(marker) # CellKey(RecordMarker)
                   /\ \E t \in DOMAIN tiles' : key = CellKey(latLng(t[1], t[2])))]_vars

C7_Witness ==
  /\ pc = "running"
  /\ popup = <<>> /\ pending = <<>>
  /\ coinsOwned # <<>>
  /\ localStorage.text = "json"
  /\ coinsOwned = localStorage.value.coinsOwned
  /\ marker = RecordMarker
  /\ DOMAIN grid # DOMAIN localStorage.value.grid

\* C8 (as claimed): a key of the grid stays in the grid for the rest of the
\* process.
C8_KeysNeverDeleted ==
  [][RestartStep \/ DOMAIN grid \subseteq DOMAIN grid']_vars

\* C8 (amended): a key of the grid stays in the grid for the rest of the
\* process, except that the load at start-up replaces the grid by the
\* record's.
C8_KeysDeletedOnlyByLoad ==
  [][RestartStep \/ LoadStep \/ DOMAIN grid \subseteq DOMAIN grid']_vars

C8_Witness ==
  /\ pc = "running"
  /\ Cardinality(DOMAIN grid) >= 3
  /\ coinsOwned # <<>>
  /\ popup # <<>>

InRange(ll) == gridCellInRange([marker |-> marker], [latLng |-> ll])

\* C9: a popup is built, and a button changes the coins of a cache, only
\* while the cell has a cache and lies within the visibility bounds around the
\* marker.
C9_InteractiveOnlyInRange ==
  [][pc # "start" =>
       /\ Len(pending') > Len(pending) =>
            /\ pending'[Len(pending')].cell.hasCache
            /\ InRange(pending'[Len(pending')].cell.latLng)
       /\ \A key \in DOMAIN grid \cap DOMAIN grid' :
            grid'[key].coins # grid[key].coins =>
              /\ grid[key].hasCache
              /\ InRange(latLng(key[1], key[2]))]_vars

\* C10: a cell generated with a cache holds between GEOCOIN_CACHE_MIN_VALUE and
\* GEOCOIN_CACHE_MAX_VALUE coins, labelled #1..#count at its coordinate in
\* ascending order; a cell generated without a cache holds none.
C10_GeneratedCount ==
  call.op = "tryGenerateGeocoinCache" =>
    IF call.hasCache
      THEN /\ Len(call.coins) >= GEOCOIN_CACHE_MIN_VALUE
           /\ Len(call.coins) <= GEOCOIN_CACHE_MAX_VALUE
           /\ Len(call.coins) >= 1
           /\ \A i \in 1..Len(call.coins) :
                call.coins[i] = <<i, call.latLng.lat, call.latLng.lng>>
      ELSE call.coins = <<>>

C10_Witness ==
  /\ call.op = "tryGenerateGeocoinCache"
  /\ call.hasCache
  /\ Len(call.coins) = GEOCOIN_CACHE_MAX_VALUE

\* every coordinate a run can hand to getGridCell
RequestCoords == WorldCells \cup TileCentres \cup GeoPositions

C12_MoveCoinOrder ==
  (call.op = "moveCoin" /\ call.from0 # <<>>) =>
    LET n == Len(call.from0)
        named == IF call.coin = Undefined THEN call.from0[1] ELSE call.coin
        held == {i \in 1..n : call.from0[i] = named}
    IN IF held = {}
         THEN /\ call.ret = FALSE
              /\ call.from = call.from0
              /\ call.to = call.to0
         ELSE LET i == CHOOSE k \in held : \A j \in held : k <= j
              IN /\ call.ret = TRUE
                 /\ call.from = SubSeq(call.from0, 1, i - 1) \o SubSeq(call.from0, i + 1, n)
                 /\ call.to = call.to0 \o <<named>>
                 /\ (call.coin = Undefined => i = 1 /\ call.from = Tail(call.from0))

\* a named coin held twice, not at the head of the source
C12_Witness ==
  /\ call.op = "moveCoin"
  /\ call.coin # Undefined
  /\ Len(call.from0) = MoveLen
  /\ call.from0[1] # call.coin
  /\ call.from0[2] = call.coin
  /\ call.from0[3] = call.coin
  /\ call.ret = TRUE
  /\ call.to0 # <<>>

\* the places a coin is held at: <<>> for state.coinsOwned, a key of the
\* grid for the coins of that cell, with the index in the array
CoinPlaces ==
  {<<<<>>, i>> : i \in 1..Len(coinsOwned)}
  \cup UNION {{<<key, i>> : i \in 1..Len(grid[key].coins)} : key \in DOMAIN grid}

CoinAtPlace(place) ==
  IF place[1] = <<>> THEN coinsOwned[place[2]] ELSE grid[place[1]].coins[place[2]]

\* the coins generation made for the cells of the grid
GeneratedCoins ==
  UNION {{Generated(key).coins[i] : i \in 1..Len(Generated(key).coins)} :
           key \in DOMAIN grid}

\* C13: every coin generated is held exactly once across state.coinsOwned and
\* the coins of the cells of the grid, and no other coin is held.
C13_CoinsConservedAndUnique ==
  /\ \A coin \in GeneratedCoins :
       Cardinality({place \in CoinPlaces : CoinAtPlace(place) = coin}) = 1
  /\ \A place \in CoinPlaces : CoinAtPlace(place) \in GeneratedCoins

\* C14: rebuilding a cell from a memento that lacks latLng, hasCache or coins
\* throws in asHavingProperties, on the first of these the memento lacks,
\* before a field of the cell is assigned: the cell and the grid are left as
\* they were.  A memento that has the three is not refused.
C14_MissingFieldThrowsFirst ==
  call.op = "fromMemento" =>
    /\ grid = NoGrid
    /\ IF call.memento.has # MementoProperties
         THEN /\ call.thrown
              /\ call.key \in MementoProperties \ call.memento.has
              /\ call.cell = call.cell0
         ELSE /\ ~call.thrown
              /\ geocoinGridCellToMemento(call.cell) = call.memento.value

\* a memento lacking coins only, for a cell none of whose fields it matches
C14_Witness ==
  /\ call.op = "fromMemento"
  /\ call.memento.has = {"latLng", "hasCache"}
  /\ call.thrown
  /\ call.key = "coins"
  /\ call.cell0.latLng # call.memento.value.latLng
  /\ call.cell0.hasCache # call.memento.value.hasCache
  /\ call.cell0.coins # call.memento.value.coins

RECURSIVE CoinsIn_000(_, _)
\* the coins of the cells of g at keys
CoinsIn_000(g, keys) ==
  IF keys = {} THEN 0
  ELSE LET key == CHOOSE k \in keys : TRUE
       IN g[key].coins + CoinsIn_000(g, keys \ {key})

Total_000 == coinsOwned + CoinsIn_000(grid, DOMAIN grid)

\* a step that generates a cell adds its coins and leaves the rest alone
Generates_000 ==
  /\ DOMAIN grid \subseteq DOMAIN grid'
  /\ Cardinality(DOMAIN grid' \ DOMAIN grid) = 1
  /\ \A key \in DOMAIN grid : grid'[key] = grid[key]
  /\ coinsOwned' = coinsOwned

\* a step that moves coins between the player and one cell: one coin, or the
\* whole count of the side it empties
Transfers_000 ==
  /\ DOMAIN grid' = DOMAIN grid
  /\ Total_000' = Total_000
  /\ \E key \in DOMAIN grid :
       /\ \A other \in DOMAIN grid \ {key} : grid'[other] = grid[other]
       /\ grid'[key].hasCache = grid[key].hasCache
       /\ LET taken == grid[key].coins - grid'[key].coins
          IN /\ coinsOwned' = coinsOwned + taken
             /\ \/ taken \in {1, -1}
                \/ taken = grid[key].coins /\ grid'[key].coins = 0
                \/ taken = 0 - coinsOwned /\ coinsOwned' = 0

\* C15: in the revision that counts coins, the count of every cell and of the
\* player is never negative, and the sum of the counts changes only when a
\* cell is generated: a take or a leave moves one coin, a take-all or a
\* leave-all moves the whole count and leaves its source at 0.
C15_CountsNonNegativeAndConserved ==
  /\ [](coinsOwned >= 0 /\ \A key \in DOMAIN grid : grid[key].coins >= 0)
  /\ [][\/ grid' = grid /\ coinsOwned' = coinsOwned
        \/ Generates_000
        \/ Transfers_000]_vars

\* transfers have been made on two caches: one is empty, the other holds one
\* coin, the player holds the rest, and a popup is open
C15_Witness ==
  /\ popup # <<>>
  /\ coinsOwned >= 3
  /\ \E key \in DOMAIN grid : grid[key].hasCache /\ grid[key].coins = 0
  /\ \E key \in DOMAIN grid : grid[key].hasCache /\ grid[key].coins = 1
  /\ Total_000 = coinsOwned + 1

====
